---- MODULE Spec2Model ----
(***************************************************************************)
(* Model of the AI Video Animator's bounded history store                  *)
(* (App.tsx: load effect, updateAndSaveHistory, handleClearHistory) and of *)
(* the VideoHistory component that renders it.                             *)
(*                                                                         *)
(* The browser's localStorage slot 'ai-video-animator-history' is part of  *)
(* the state.  The storage layer is the environment: every setItem may     *)
(* succeed, throw a quota error (in one of the shapes browsers use) or     *)
(* throw another error; while access to localStorage is denied every call  *)
(* on it throws a SecurityError.  Handlers are synchronous, so access does *)
(* not change in the middle of one handler.                                *)
(*                                                                         *)
(* The second part models a generation: App.handleAnimate and              *)
(* geminiService.animateImage, one step per await.  The remote service,    *)
(* the download, the file readers and the timers are the environment:      *)
(* every await may settle with a value or with an error, and a timer may   *)
(* fire late.  Date.now() is taken not to go back.  Each run keeps a log   *)
(* of its progress calls, its requests and the answers to them.            *)
(*                                                                         *)
(* Specifications: Spec (the history store, with inserts at any time),     *)
(* SpecRun (the app from the opened page, with the entries of an earlier   *)
(* session in the slot, through upload and generation to the saved entry), *)
(* SpecFair (one generation whose timers fire and whose requests settle),  *)
(* SpecFlight (the page with its history list, where the user may leave    *)
(* the loading view and start again while a generation is under way),      *)
(* SpecEstimate (the progress estimate as a function of the elapsed time)  *)
(* and SpecClassify (the catch block of animateImage on pairs of thrown    *)
(* values).                                                                *)
(***************************************************************************)
EXTENDS Integers, Sequences, FiniteSets, TLC

(***************************************************************************)
(* Program constant and model bounds                                       *)
(***************************************************************************)
HISTORY_LIMIT == 5

\* Date.now() advances at most MaxTicks times while the app runs.
MaxTicks == 2
\* Entries already persisted by an earlier session have ids 1 .. MaxPast.
MaxPast == 1
\* handleAnimate is called at most MaxStarts times, and at most MaxRuns of
\* its calls are under way at once.
MaxStarts == 1
MaxRuns == 1
\* The remote answers at most MaxPolls status checks of one run.
MaxPolls == 3
\* Where calls of handleAnimate may overlap there are at most MaxFlights of
\* them, and the remote answers at most MaxFlightPolls status checks of each.
MaxFlights == 2
MaxFlightPolls == 1
\* A poll timer fires after one polling interval, or (throttled) after LongDelay.
LongDelay == 12
\* The progress estimator is tried on elapsed times up to MaxSamples half
\* polling intervals.
MaxSamples == 30
\* No reading of the clock exceeds ClockEnd.
ClockEnd == MaxPast + MaxTicks + MaxStarts * MaxPolls * LongDelay

VARIABLES
    history,      \* React state `history` (a parsed JSON value)
    storage,      \* localStorage slot 'ai-video-animator-history'
    loaded,       \* the mount effect that loads the history has run
    crashed,      \* an exception escaped into React: the tree is unmounted
    available,    \* access to window.localStorage is allowed
    now,          \* Date.now()
    inserted,     \* an insert has completed since the page was loaded
    last,         \* the latest history operation and the state it started from
    written,      \* what this program last did to the slot (survives a reload)
    appState,     \* React state `appState`
    imageFile,    \* React state `imageFile`
    error,        \* React state `error`
    apiKeyReady,  \* React state `apiKeyReady`
    progress,     \* React state `progress`, in units of 1/120000 percent
    videoUrl,     \* React state `videoUrl`: the video the player shows
    runs,         \* the calls of handleAnimate that are under way
    started,      \* how many calls of handleAnimate there have been
    elapsed,      \* two elapsed times handed to the progress estimator
    estimates,    \* what the estimator returned for them (<<>>: not yet called)
    raised,       \* two values thrown into the catch block of animateImage
    rejections    \* what the catch block threw for them (<<>>: not yet run)

storeVars == <<history, storage, loaded, crashed, available, inserted, last, written>>
appVars == <<appState, imageFile, error, apiKeyReady, progress, videoUrl, runs, started>>
estVars == <<elapsed, estimates>>
classVars == <<raised, rejections>>
vars == <<history, storage, loaded, crashed, available, now, inserted, last, written,
          appState, imageFile, error, apiKeyReady, progress, videoUrl, runs, started,
          elapsed, estimates, raised, rejections>>

(***************************************************************************)
(* JSON values and HistoryItem                                             *)
(***************************************************************************)
Undefined == "undefined"
MODEL_NAME == "veo-3.1-fast-generate-preview"

\* A JSON array / a JSON value that is not an array (such as {}).
Arr(s) == [t |-> "array", v |-> s]
JsonObject == [t |-> "object", v |-> <<>>]
IsArray(j) == j.t = "array"

\* Property read o.k of a JavaScript object: undefined when the key is absent.
Get(o, k) == IF k \in DOMAIN o THEN o[k] ELSE Undefined

\* The HistoryItem built by handleAnimate; id is Date.now().toString().
HistoryItem(id, imageBase64, videoBase64, videoMimeType, generationTime, modelUsed) ==
    [id |-> id, imageBase64 |-> imageBase64, videoBase64 |-> videoBase64,
     videoMimeType |-> videoMimeType, generationTime |-> generationTime,
     modelUsed |-> modelUsed]

\* The fields of HistoryItem; generationTime is the one that is a number.
ItemKeys == {"id", "imageBase64", "videoBase64", "videoMimeType", "generationTime", "modelUsed"}
NumberKeys == {"generationTime"}

\* What readAsDataURL(...).split(',')[1] gives for the image and the video,
\* and the type of the downloaded blob.
IMAGE_BASE64 == "aW1hZ2U="
VIDEO_BASE64 == "dmlkZW8="
VIDEO_MIME == "video/mp4"

\* parseInt(item.id), as VideoHistory reads the creation time back
Decimal == [n \in 0..ClockEnd |-> ToString(n)]
parseInt(str) == CHOOSE n \in 0..ClockEnd : Decimal[n] = str

\* An entry written by the earlier version of the app: no generationTime and
\* no modelUsed field.
LegacyItem(id) ==
    [id |-> id, imageBase64 |-> IMAGE_BASE64, videoBase64 |-> VIDEO_BASE64,
     videoMimeType |-> VIDEO_MIME]

\* JSON.stringify that leaves out the number fields
StringifyObject_NoNumbers(o) ==
    LET keys == {k \in DOMAIN o : k \notin NumberKeys /\ o[k] # Undefined}
    IN  [k \in keys |-> o[k]]

\* JSON.stringify of one object: keys whose value is undefined are left out;
\* a finite number is written as it is.
StringifyObject(o) ==
    LET keys == {k \in DOMAIN o : k \in NumberKeys \/ o[k] # Undefined}
    IN  [k \in keys |-> o[k]]

\* The value of localStorage.getItem: null, or a text.
Absent == [kind |-> "absent", value |-> JsonObject]
EmptyText == [kind |-> "empty", value |-> JsonObject]
Unparseable == [kind |-> "unparseable", value |-> JsonObject]
JsonText(j) == [kind |-> "json", value |-> j]

\* JSON.stringify(historyToSave)
JSONstringify(s) == JsonText(Arr([i \in 1..Len(s) |-> StringifyObject(s[i])]))

\* JSON.parse(text) throws a SyntaxError
ParseThrows(text) == text.kind \in {"empty", "unparseable"}
\* JSON.parse(text) when it does not throw
JSONparse(text) == text.value

\* `if (storedHistory)`: null and the empty string are falsy
Truthy(text) == text.kind \notin {"absent", "empty"}

(***************************************************************************)
(* Values the storage layer throws                                         *)
(***************************************************************************)
\* setItem returned normally
NotThrown == [truthy |-> FALSE, name |-> "(returned)", messageIsString |-> FALSE, message |-> <<>>]

\* Chrome, Safari: DOMException named QuotaExceededError
ChromeQuota == [truthy |-> TRUE, name |-> "QuotaExceededError", messageIsString |-> TRUE,
                message |-> <<"The", "value", "exceeded", "the", "quota">>]
\* old Firefox: the name says it, the message does not
FirefoxQuota == [truthy |-> TRUE, name |-> "NS_ERROR_DOM_QUOTA_REACHED", messageIsString |-> TRUE,
                 message |-> <<"Persistent", "storage", "maximum", "size", "reached">>]
\* other environments: a plain Error whose message names the quota
MessageQuota == [truthy |-> TRUE, name |-> "Error", messageIsString |-> TRUE,
                 message |-> <<"Storage", "Quota", "exceeded">>]
\* access to localStorage denied
SecurityError == [truthy |-> TRUE, name |-> "SecurityError", messageIsString |-> TRUE,
                  message |-> <<"The", "operation", "is", "insecure">>]
\* an error object without a text message
OpaqueError == [truthy |-> TRUE, name |-> "Error", messageIsString |-> FALSE, message |-> <<>>]

QuotaErrors == {ChromeQuota, FirefoxQuota, MessageQuota}
\* `throw null`: a thrown value that is falsy
ThrownNull == [truthy |-> FALSE, name |-> "(null)", messageIsString |-> FALSE, message |-> <<>>]
OtherErrors == {SecurityError, OpaqueError, ThrownNull}

\* String.prototype.toLowerCase, word by word
LowerWord(w) ==
    CASE w = "Quota" -> "quota"
      [] w = "The" -> "the"
      [] w = "Storage" -> "storage"
      [] w = "Persistent" -> "persistent"
      [] w = "Requested entity was not found" -> "requested entity was not found"
      [] w = "NOT_FOUND" -> "not_found"
      [] w = "Failed to read file" -> "failed to read file"
      [] w = "Could not read image file" -> "could not read image file"
      [] w = "API key not valid" -> "api key not valid"
      [] w = "RESOURCE_EXHAUSTED" -> "resource_exhausted"
      [] w = "Deadline exceeded" -> "deadline exceeded"
      [] w = "503 Service Unavailable" -> "503 service unavailable"
      [] w = "Download failed with status" -> "download failed with status"
      [] w = "Failed to fetch" -> "failed to fetch"
      [] OTHER -> w
toLowerCase(m) == [i \in 1..Len(m) |-> LowerWord(m[i])]
\* String.prototype.includes for one word
includes(m, w) == \E i \in 1..Len(m) : m[i] = w

\* isQuotaError with the message test left out
isQuotaError_NameOnly(e) ==
    e.truthy /\ (e.name = "QuotaExceededError" \/ e.name = "NS_ERROR_DOM_QUOTA_REACHED")

\* const isQuotaError = e && (e.name === ... || e.name === ... || message includes 'quota')
isQuotaError(e) ==
    e.truthy /\ ( \/ e.name = "QuotaExceededError"
                  \/ e.name = "NS_ERROR_DOM_QUOTA_REACHED"
                  \/ (e.messageIsString /\ includes(toLowerCase(e.message), "quota")) )

(***************************************************************************)
(* What the storage layer does during one insert: the first quotaFailures  *)
(* calls of setItem throw quotaError, the call after them succeeds         *)
(* (final = "ok") or throws otherError (final = "other").                  *)
(***************************************************************************)
AllPatterns ==
    {p \in [quotaFailures : 0..HISTORY_LIMIT, final : {"ok", "other"},
            quotaError : QuotaErrors, otherError : OtherErrors] :
        \* an error that is never thrown is named once only
        /\ p.quotaFailures = 0 => p.quotaError = ChromeQuota
        /\ p.final = "ok" => p.otherError = SecurityError}

Patterns(avail) ==
    IF avail
    THEN AllPatterns
    ELSE [quotaFailures : {0}, final : {"other"},
          quotaError : {ChromeQuota}, otherError : {SecurityError}]

\* The value thrown by the i-th call of setItem (NotThrown: the call returns).
SetItemThrows(p, i) ==
    IF i <= p.quotaFailures THEN p.quotaError
    ELSE IF p.final = "ok" THEN NotThrown
    ELSE p.otherError

(***************************************************************************)
(* updateAndSaveHistory                                                    *)
(***************************************************************************)
\* slice that keeps one element more
Slice_OneMore(s, n) == SubSeq(s, 1, IF Len(s) < n + 1 THEN Len(s) ELSE n + 1)
\* Array.prototype.slice(0, n)
Slice(s, n) == SubSeq(s, 1, IF Len(s) < n THEN Len(s) ELSE n)
\* Array.prototype.shift in the place of pop: the array without its first element
Pop_Shift(s) == SubSeq(s, 2, Len(s))
\* Array.prototype.pop: the array without its last element
Pop(s) == SubSeq(s, 1, Len(s) - 1)

\* the new item appended instead of prepended
NewHistory_Append(newItem, currentHistory) ==
    Slice(currentHistory \o <<newItem>>, HISTORY_LIMIT)
\* slice with the limit off by one
NewHistory_OffByOne(newItem, currentHistory) ==
    Slice(<<newItem>> \o currentHistory, HISTORY_LIMIT + 1)

\* the new list with the duration of the new item written into every entry
NewHistory_Restamp(newItem, currentHistory) ==
    Slice([i \in 1..(Len(currentHistory) + 1) |->
              IF i = 1 THEN newItem
              ELSE [currentHistory[i - 1] EXCEPT !.generationTime = newItem.generationTime]],
          HISTORY_LIMIT)

\* const newHistory = [newItem, ...currentHistory].slice(0, HISTORY_LIMIT);
NewHistory(newItem, currentHistory) ==
    Slice(<<newItem>> \o currentHistory, HISTORY_LIMIT)

\* the list still to be saved returned in the place of newHistory
OnOtherError_Retained(newHistory, historyToSave) == historyToSave
\* } else { ...; return newHistory; }
OnOtherError(newHistory, historyToSave) == newHistory

\* the slot left as it is when nothing could be saved
OnExhausted_KeepSlot(blob) == blob
\* localStorage.removeItem('ai-video-animator-history') after the loop
OnExhausted(blob) == Absent

\* The while loop from its i-th call of setItem on.  The result is the value
\* the updater returns, the slot afterwards and the number of setItem calls.
\* the full list returned after a write of the shortened list
OnSaved_Full(newHistory, historyToSave) == newHistory
\* // Succeeded, this is the new state.  return historyToSave;
OnSaved(newHistory, historyToSave) == historyToSave

RECURSIVE SaveLoop(_, _, _, _, _)
SaveLoop(historyToSave, newHistory, blob, p, i) ==
    IF Len(historyToSave) = 0
    THEN [history |-> historyToSave, storage |-> OnExhausted(blob), attempts |-> i - 1]
    ELSE LET e == SetItemThrows(p, i)
         IN  IF e = NotThrown
             THEN [history |-> OnSaved(newHistory, historyToSave),
                   storage |-> JSONstringify(historyToSave), attempts |-> i]
             ELSE IF isQuotaError(e)
             THEN SaveLoop(Pop(historyToSave), newHistory, blob, p, i + 1)
             ELSE [history |-> OnOtherError(newHistory, historyToSave), storage |-> blob,
                   attempts |-> i]

\* VideoHistory: `history.length === 0` and `history.map` need an array, and
\* `item.modelUsed.replace` needs a modelUsed in every item.
VideoHistoryThrows(h) ==
    \/ ~IsArray(h)
    \/ \E i \in 1..Len(h.v) : Get(h.v[i], "modelUsed") = Undefined

\* What the storage layer did, as the latest operation records it.
Final(p, n) == IF p.quotaFailures >= n THEN "none" ELSE p.final
Min(a, b) == IF a < b THEN a ELSE b

\* Nothing written yet by this program / the slot removed by the insert
\* loop, by the load effect or by clear.
NotWritten == [by |-> "nobody", item |-> LegacyItem("0"), list |-> <<>>]
Removed == [NotWritten EXCEPT !.by = "removed"]
Cleared == [NotWritten EXCEPT !.by = "clear"]

NoOp ==
    [op |-> "none", item |-> HistoryItem("0", IMAGE_BASE64, VIDEO_BASE64, VIDEO_MIME, 0, MODEL_NAME), before |-> Arr(<<>>),
     blobBefore |-> Absent, quotaFailures |-> 0, final |-> "none", attempts |-> 0,
     failed |-> FALSE]

\* The state updater of updateAndSaveHistory, and the render that follows it.
updateAndSaveHistory(newItem, p) ==
    /\ loaded /\ ~crashed
    /\ IF ~IsArray(history)
       THEN \* [newItem, ...currentHistory] throws: currentHistory is not iterable
            /\ crashed' = TRUE
            /\ UNCHANGED <<history, storage, inserted, written>>
            /\ last' = [NoOp EXCEPT !.op = "insert", !.item = newItem, !.before = history,
                                    !.blobBefore = storage, !.failed = TRUE]
       ELSE LET newHistory == NewHistory(newItem, history.v)
                r == SaveLoop(newHistory, newHistory, storage, p, 1)
            IN  /\ history' = Arr(r.history)
                /\ storage' = r.storage
                /\ crashed' = VideoHistoryThrows(Arr(r.history))
                /\ inserted' = TRUE
                /\ written' = IF r.storage = storage THEN written
                              ELSE IF r.storage = Absent THEN Removed
                              ELSE [by |-> "insert", item |-> newItem, list |-> r.history]
                /\ last' = [op |-> "insert", item |-> newItem, before |-> history,
                            blobBefore |-> storage,
                            quotaFailures |-> Min(p.quotaFailures, Len(newHistory)),
                            final |-> Final(p, Len(newHistory)),
                            attempts |-> r.attempts, failed |-> FALSE]
    /\ UNCHANGED <<loaded, available, now>>

(***************************************************************************)
(* Load effect, handleClearHistory, and the environment                    *)
(***************************************************************************)
\* the unreadable text left in the slot
OnParseFailure_Keep(blob) == blob
\* catch (e) { ...; localStorage.removeItem('ai-video-animator-history'); }
OnParseFailure(blob) == Absent

\* useEffect(() => { try { getItem; if (storedHistory) setHistory(JSON.parse(..)) } catch ... }, [])
LoadHistory ==
    /\ ~loaded /\ ~crashed
    /\ loaded' = TRUE
    /\ last' = [NoOp EXCEPT !.op = "load", !.before = history, !.blobBefore = storage,
                            !.failed = ~available]
    /\ IF ~available
       THEN \* getItem throws, and so does removeItem in the catch block
            /\ crashed' = TRUE
            /\ UNCHANGED <<history, storage>>
       ELSE IF ~Truthy(storage)
       THEN UNCHANGED <<history, storage, crashed>>
       ELSE IF ParseThrows(storage)
       THEN /\ storage' = OnParseFailure(storage)
            /\ UNCHANGED <<history, crashed>>
       ELSE /\ history' = JSONparse(storage)
            /\ crashed' = VideoHistoryThrows(JSONparse(storage))
            /\ UNCHANGED storage
    /\ written' = IF storage' = storage THEN written ELSE Removed
    /\ UNCHANGED <<available, now, inserted>>
    /\ UNCHANGED <<appVars, estVars, classVars>>

\* the removal of the slot forgotten
ClearSlot_Never(blob, avail) == blob
\* try { localStorage.removeItem(...) } catch (e) { console.error(...) }
ClearSlot(blob, avail) == IF avail THEN Absent ELSE blob

\* handleClearHistory, reachable through the Clear History button, which
\* VideoHistory renders only for a non-empty history.
handleClearHistory ==
    /\ loaded /\ ~crashed
    /\ IsArray(history) /\ Len(history.v) > 0
    /\ history' = Arr(<<>>)
    /\ storage' = ClearSlot(storage, available)
    /\ written' = IF available THEN Cleared ELSE written
    /\ last' = [NoOp EXCEPT !.op = "clear", !.before = history, !.blobBefore = storage,
                            !.failed = ~available]
    /\ UNCHANGED <<loaded, crashed, available, now, inserted>>
    /\ UNCHANGED <<appVars, estVars, classVars>>

\* The page is reloaded: every useState starts from its initial value, the
\* slot keeps its content.
Restart ==
    /\ loaded
    /\ history' = Arr(<<>>)
    /\ loaded' = FALSE
    /\ crashed' = FALSE
    /\ inserted' = FALSE
    /\ last' = NoOp
    /\ UNCHANGED <<storage, available, now, written>>
    /\ UNCHANGED <<appVars, estVars, classVars>>

\* The browser's permission to use site data is switched.
AccessChange ==
    /\ available' = ~available
    /\ UNCHANGED <<history, storage, loaded, crashed, now, inserted, last, written>>
    /\ UNCHANGED <<appVars, estVars, classVars>>

\* Time passes.
Tick ==
    /\ now < MaxPast + MaxTicks
    /\ now' = now + 1
    /\ UNCHANGED <<history, storage, loaded, crashed, available, inserted, last, written>>
    /\ UNCHANGED <<appVars, estVars, classVars>>

\* The clock when the session began.
SessionStart == MaxPast + 1

\* A generation that began with the session succeeded: handleAnimate builds
\* the item and saves it.
Insert ==
    /\ \E p \in Patterns(available) :
          updateAndSaveHistory(
              HistoryItem(ToString(now), IMAGE_BASE64, VIDEO_BASE64, VIDEO_MIME,
                          now - SessionStart, MODEL_NAME), p)
    /\ UNCHANGED <<appVars, estVars, classVars>>

\* What an earlier session can have left in the slot.
RECURSIVE Descending(_)
Descending(k) ==
    IF k = 0 THEN <<>>
    ELSE <<HistoryItem(ToString(k), IMAGE_BASE64, VIDEO_BASE64, VIDEO_MIME, k, MODEL_NAME)>>
         \o Descending(k - 1)

InitialBlobs ==
    {Absent, EmptyText, Unparseable, JsonText(JsonObject),
     JsonText(Arr(<<LegacyItem("1")>>))}
    \cup {JSONstringify(Descending(k)) : k \in 1..MaxPast}

InitStore ==
    /\ history = Arr(<<>>)
    /\ storage \in InitialBlobs
    /\ loaded = FALSE
    /\ crashed = FALSE
    /\ available \in BOOLEAN
    /\ now = SessionStart
    /\ inserted = FALSE
    /\ last = NoOp
    /\ written = NotWritten


(***************************************************************************)
(* geminiService: the texts of errors.  A text is a sequence of phrases;   *)
(* toLowerCase and includes work phrase by phrase.                         *)
(***************************************************************************)
POLLING_INTERVAL_MS == 10000
EXPECTED_ANIMATION_DURATION_MS == 120000

\* A text that does not begin with '{'.
Plain(words) == [form |-> "plain", words |-> words, msg |-> <<>>, status |-> ""]
\* The text of a JSON object whose error (or root) object has the given
\* message (<<>>: none) and status ("": none), and other content besides.
JsonError(msg, status, other) ==
    [form |-> "json",
     words |-> <<"{">> \o msg \o (IF status = "" THEN <<>> ELSE <<status>>) \o other \o <<"}">>,
     msg |-> msg, status |-> status]
\* A text that begins with '{' and is not JSON.
BrokenJson(words) == [form |-> "brokenjson", words |-> <<"{">> \o words, msg |-> <<>>, status |-> ""]

\* A thrown Error with this text / a thrown value that is not an Error (the
\* ProgressEvent of FileReader.onerror, the Event of img.onerror).
ErrorOf(text) == [isError |-> TRUE, text |-> text]
NotAnError == [isError |-> FALSE, text |-> Plain(<<>>)]

\* The errors the code itself raises.
ReadFileError == ErrorOf(Plain(<<"Failed to read file", "as base64 string.">>))
ReadBlobError == ErrorOf(Plain(<<"Failed to read blob as base64 string.">>))
DimensionsError == ErrorOf(Plain(<<"Could not read image file", "to determine dimensions.">>))
\* new Error("Video generation succeeded, but no download link was returned.")
NoLinkError ==
    ErrorOf(Plain(<<"Video generation succeeded, but", "no download link was returned", ".">>))
\* new Error(`Download failed with status ${response.status}: ${errorText}`)
DownloadFailed(status, errorText) ==
    ErrorOf(Plain(<<"Download failed with status", status, ":">> \o errorText))

\* Errors of the remote service and of the transport.
NotFoundError ==
    ErrorOf(JsonError(<<"Requested entity was not found">>, "NOT_FOUND", <<>>))
ExhaustedError ==
    ErrorOf(JsonError(<<"You exceeded your current", "quota">>, "RESOURCE_EXHAUSTED", <<>>))
InvalidKeyError == ErrorOf(JsonError(<<"API key not valid">>, "INVALID_ARGUMENT", <<>>))
NoMessageError == ErrorOf(JsonError(<<>>, "", <<"code", "500">>))
DeadlineError == ErrorOf(Plain(<<"Deadline exceeded">>))
UnavailableError == ErrorOf(Plain(<<"503 Service Unavailable">>))
NetworkError == ErrorOf(Plain(<<"Failed to fetch">>))
TruncatedError == ErrorOf(BrokenJson(<<"error", "Internal">>))
\* A JSON error whose message says one thing and whose details say another.
DetailedError ==
    ErrorOf(JsonError(<<"Publisher model is unavailable">>, "FAILED_PRECONDITION",
                      <<"details", "Requested entity was not found">>))

RemoteErrors ==
    {NotFoundError, ExhaustedError, InvalidKeyError, NoMessageError, DeadlineError,
     UnavailableError, NetworkError, TruncatedError, DetailedError}
ReadErrors == {ReadFileError, DimensionsError, NotAnError}

\* The messages animateImage rejects with.
MSG_UNEXPECTED == "An unexpected error occurred during the animation process. Please try again."
MSG_INPUT == "The uploaded file appears to be corrupted or is in an unsupported format. Please try a different image."
MSG_AUTH == "Authentication with the AI service failed. This is a configuration issue."
MSG_QUOTA == "You have exceeded your API quota. Please check your plan and billing details, or try again later."
MSG_TRANSIENT == "The request timed out as the service is temporarily unavailable. Please try again later."
MSG_DOWNLOAD == "Failed to retrieve the final video, which may be due to a network issue. Please check your connection and try again."
MSG_NORESULT == "The AI was unable to create an animation from this specific image. Please try a different one."
MSG_TECHNICAL == "A technical issue occurred:"

\* if (originalMessage.trim().startsWith('{')) { try { JSON.parse ... } catch {} }
effectiveMessage(text) ==
    IF text.form = "json" /\ text.msg # <<>>
    THEN text.msg \o <<text.status>>
    ELSE text.words

\* originalMessage.startsWith('Download failed with status')
startsWithDownloadFailed(text) ==
    text.form = "plain" /\ Len(text.words) > 0 /\ text.words[1] = "Download failed with status"

\* The rejection of animateImage: the error re-thrown as it is, or a new
\* Error with a message for the user.
Rethrown(thrown) == [category |-> "CredentialResetSignal", rethrown |-> TRUE, error |-> thrown]
Rejected(category, words) ==
    [category |-> category, rethrown |-> FALSE, error |-> ErrorOf(Plain(words))]

\* the catch block without the re-throw of the entity-not-found error
classify_NoRethrow(thrown) ==
    IF ~thrown.isError THEN Rejected("UnexpectedError", <<MSG_UNEXPECTED>>)
    ELSE Rejected("UnknownError", <<MSG_TECHNICAL>> \o thrown.text.words)

\* the catch block with the text of the error added to the message for the
\* unavailable service
classify_Verbatim(thrown) ==
    IF ~thrown.isError THEN Rejected("UnexpectedError", <<MSG_UNEXPECTED>>)
    ELSE IF \/ includes(toLowerCase(effectiveMessage(thrown.text)), "deadline exceeded")
            \/ includes(toLowerCase(effectiveMessage(thrown.text)), "503 service unavailable")
    THEN Rejected("TransientError", <<MSG_TRANSIENT>> \o thrown.text.words)
    ELSE Rejected("UnknownError", <<MSG_TECHNICAL>> \o thrown.text.words)

\* the catch block that looks for the quota phrases before the others
classify_QuotaFirst(thrown) ==
    IF ~thrown.isError THEN Rejected("UnexpectedError", <<MSG_UNEXPECTED>>)
    ELSE LET lowerCaseMessage == toLowerCase(effectiveMessage(thrown.text))
         IN  IF \/ includes(lowerCaseMessage, "rate limit")
                \/ includes(lowerCaseMessage, "resource_exhausted")
                \/ includes(lowerCaseMessage, "quota")
             THEN Rejected("QuotaError", <<MSG_QUOTA>>)
             ELSE IF includes(lowerCaseMessage, "requested entity was not found")
             THEN Rethrown(thrown)
             ELSE IF \/ includes(lowerCaseMessage, "failed to read file")
                     \/ includes(lowerCaseMessage, "could not read image file")
             THEN Rejected("InputError", <<MSG_INPUT>>)
             ELSE IF includes(lowerCaseMessage, "api key not valid")
             THEN Rejected("AuthError", <<MSG_AUTH>>)
             ELSE IF \/ includes(lowerCaseMessage, "deadline exceeded")
                     \/ includes(lowerCaseMessage, "503 service unavailable")
             THEN Rejected("TransientError", <<MSG_TRANSIENT>>)
             ELSE IF startsWithDownloadFailed(thrown.text)
             THEN Rejected("DownloadError", <<MSG_DOWNLOAD>>)
             ELSE IF includes(lowerCaseMessage, "no download link was returned")
             THEN Rejected("NoResultError", <<MSG_NORESULT>>)
             ELSE Rejected("UnknownError", <<MSG_TECHNICAL>> \o thrown.text.words)

\* the catch block with no message for a value that is not an Error
classify_ErrorsOnly(thrown) ==
    IF ~thrown.isError THEN Rejected("", <<>>)
    ELSE Rejected("UnknownError", <<MSG_TECHNICAL>> \o thrown.text.words)

\* The catch block of animateImage.
classify(thrown) ==
    IF ~thrown.isError THEN Rejected("UnexpectedError", <<MSG_UNEXPECTED>>)
    ELSE LET lowerCaseMessage == toLowerCase(effectiveMessage(thrown.text))
         IN  IF includes(lowerCaseMessage, "requested entity was not found")
             THEN Rethrown(thrown)
             ELSE IF \/ includes(lowerCaseMessage, "failed to read file")
                     \/ includes(lowerCaseMessage, "could not read image file")
             THEN Rejected("InputError", <<MSG_INPUT>>)
             ELSE IF includes(lowerCaseMessage, "api key not valid")
             THEN Rejected("AuthError", <<MSG_AUTH>>)
             ELSE IF \/ includes(lowerCaseMessage, "rate limit")
                     \/ includes(lowerCaseMessage, "resource_exhausted")
                     \/ includes(lowerCaseMessage, "quota")
             THEN Rejected("QuotaError", <<MSG_QUOTA>>)
             ELSE IF \/ includes(lowerCaseMessage, "deadline exceeded")
                     \/ includes(lowerCaseMessage, "503 service unavailable")
             THEN Rejected("TransientError", <<MSG_TRANSIENT>>)
             ELSE IF startsWithDownloadFailed(thrown.text)
             THEN Rejected("DownloadError", <<MSG_DOWNLOAD>>)
             ELSE IF includes(lowerCaseMessage, "no download link was returned")
             THEN Rejected("NoResultError", <<MSG_NORESULT>>)
             ELSE Rejected("UnknownError", <<MSG_TECHNICAL>> \o thrown.text.words)

(***************************************************************************)
(* geminiService.animateImage and App.handleAnimate                        *)
(*                                                                         *)
(* The clock counts polling intervals.  Progress values are kept exact by  *)
(* writing p percent as p * EXPECTED_ANIMATION_DURATION_MS.                *)
(***************************************************************************)
Pct(p) == p * EXPECTED_ANIMATION_DURATION_MS

\* the estimate without Math.min
simulatedProgress_NoCap(elapsedTime) == Pct(5) + 90 * elapsedTime

\* the estimate capped at 100
simulatedProgress_Cap100(elapsedTime) == Min(Pct(100), Pct(5) + 90 * elapsedTime)

\* Math.min(95, 5 + (90 * (elapsedTime / EXPECTED_ANIMATION_DURATION_MS)))
simulatedProgress(elapsedTime) == Min(Pct(95), Pct(5) + 90 * elapsedTime)

\* Date.now() - startTime, in milliseconds
Elapsed(startTime) == (now - startTime) * POLLING_INTERVAL_MS

\* The files a user can choose: a width and a height.
Images == {[width |-> 2, height |-> 1], [width |-> 1, height |-> 2], [width |-> 1, height |-> 1]}
NoImage == [width |-> 0, height |-> 0]

\* the wide ratio for a square image as well
aspectRatio_SquareWide(dimensions) ==
    IF dimensions.width >= dimensions.height THEN "16:9" ELSE "9:16"

\* dimensions.width > dimensions.height ? '16:9' : '9:16'
aspectRatio(dimensions) == IF dimensions.width > dimensions.height THEN "16:9" ELSE "9:16"

\* What the remote answers: the operation, with the uri of the video if any.
NoLocator == "undefined"
Locators == {"X", "Y"}
Operation(done, uri) == [done |-> done, uri |-> uri]
Operations ==
    {Operation(FALSE, NoLocator)} \cup {Operation(TRUE, u) : u \in Locators \cup {NoLocator}}

\* What the run did, in order: a call of onProgress, a request to the remote,
\* an answer of the remote.
Event(type, n, s) == [type |-> type, n |-> n, s |-> s]
Progressed(value) == Event("progress", value, "")
SubmitRequest(aspect) == Event("submit", 0, aspect)
PollRequest == Event("poll", 0, "")
DownloadRequest(uri) == Event("download", 0, uri)
Answer(operation) == Event("answer", IF operation.done THEN 1 ELSE 0, operation.uri)

\* The React state `videoUrl`: null, or the object URL made for the blob of a
\* generated video or of a history item.
ObjectURL(origin, key) == [origin |-> origin, key |-> key]
NoVideo == ObjectURL("none", "")

\* The React state `error`: null or a string.
Null == [isNull |-> TRUE, words |-> <<>>]
Str(words) == [isNull |-> FALSE, words |-> words]

\* a first progress call with 50
InitialProgress_Half == Pct(50)

\* onProgress(5); // Initial progress
InitialProgress == Pct(5)

NoRejection == [category |-> "none", rethrown |-> FALSE, error |-> NotAnError]
NoRun ==
    [no |-> 0, pc |-> "none", image |-> NoImage, startTime |-> 0,
     operation |-> Operation(FALSE, NoLocator), log |-> <<>>, result |-> "pending",
     rejection |-> NoRejection, raw |-> NotAnError, duration |-> 0,
     alone |-> TRUE, historyBefore |-> Arr(<<>>), storageBefore |-> Absent,
     outcomes |-> 0,
     after |-> [appState |-> "IDLE", apiKeyReady |-> TRUE, error |-> Null]]

\* The record of what animateImage did is kept until the user acts again.
\* After that only what the rest of handleAnimate reads is kept.
Forget(run) ==
    IF run.result = "pending" THEN run
    ELSE [NoRun EXCEPT !.no = run.no, !.pc = run.pc, !.result = run.result,
                       !.duration = run.duration]

Slots == DOMAIN runs
Free(r) == runs[r].pc \in {"none", "settled"}

MSG_KEY == "Your API key appears to be invalid. Please select a valid project API key to continue."
MSG_UNKNOWN == "An unknown error occurred during animation."

\* the test of handleAnimate's catch block, never true
IsKeyError_Never(errorMessage) == FALSE

\* errorMessage.toLowerCase().includes("requested entity was not found")
IsKeyError(errorMessage) ==
    includes(toLowerCase(errorMessage), "requested entity was not found")

\* the catch block of handleAnimate that asks for a key and shows the
\* failure as well
handleAnimateCatch_Both(err) ==
    /\ apiKeyReady' = FALSE
    /\ error' = Str(IF err.isError THEN err.text.words ELSE <<MSG_UNKNOWN>>)
    /\ appState' = "ERROR"
    /\ progress' = 0

\* The catch and finally blocks of handleAnimate.
handleAnimateCatch(err) ==
    LET errorMessage == IF err.isError THEN err.text.words ELSE <<MSG_UNKNOWN>>
    IN  /\ IF IsKeyError(errorMessage)
           THEN /\ apiKeyReady' = FALSE
                /\ error' = Str(<<MSG_KEY>>)
                /\ appState' = "IDLE"
           ELSE /\ error' = Str(errorMessage)
                /\ appState' = "ERROR"
                /\ UNCHANGED apiKeyReady
        /\ progress' = 0

\* the catch block that asks the remote for the status once more before it
\* rejects
Caught_Retry(r, run, raw) ==
    LET rejection == classify(raw)
    IN  /\ handleAnimateCatch(rejection.error)
        /\ runs' = [runs EXCEPT ![r] =
              [run EXCEPT !.pc = "settled", !.result = "failed",
                          !.rejection = rejection, !.raw = raw,
                          !.outcomes = run.outcomes + 1,
                          !.log = run.log \o <<PollRequest, Event("rejected", 0, rejection.category)>>,
                          !.after = [appState |-> appState', apiKeyReady |-> apiKeyReady',
                                     error |-> error']]]
        /\ UNCHANGED <<imageFile, videoUrl, started, now>>
        /\ UNCHANGED <<storeVars, estVars, classVars>>

\* An await of animateImage threw `raw`: its catch block rejects, and the
\* catch block of handleAnimate takes the rejection.
Caught(r, run, raw) ==
    LET rejection == classify(raw)
    IN  /\ handleAnimateCatch(rejection.error)
        /\ runs' = [runs EXCEPT ![r] =
              [run EXCEPT !.pc = "settled", !.result = "failed",
                          !.rejection = rejection, !.raw = raw,
                          !.outcomes = run.outcomes + 1,
                          !.log = Append(run.log, Event("rejected", 0, rejection.category)),
                          !.after = [appState |-> appState', apiKeyReady |-> apiKeyReady',
                                     error |-> error']]]
        /\ UNCHANGED <<imageFile, videoUrl, started, now>>
        /\ UNCHANGED <<storeVars, estVars, classVars>>

\* the loop of animateImage that does not look at operation.done
Continue_Always(operation) == TRUE

\* while (!operation.done)
Continue(operation) == ~operation.done

\* the end of animateImage without its last progress call
Finish_Silent(log) == log

\* onProgress(100)
Finish(log) == Append(log, Progressed(Pct(100)))

\* the end of the loop without the test of the link
Resolve_Anyway(r, run) ==
    /\ runs' = [runs EXCEPT ![r] =
                   [run EXCEPT !.pc = "fetching",
                               !.log = run.log \o <<Progressed(Pct(100)),
                                                    DownloadRequest(run.operation.uri)>>]]
    /\ progress' = Pct(100)
    /\ UNCHANGED <<appState, imageFile, videoUrl, error, apiKeyReady, started, now>>
    /\ UNCHANGED <<storeVars, estVars, classVars>>

\* The loop of animateImage is left: the last progress call, then the
\* download request, or the error of a result without a link.
Resolve(r, run) ==
    LET done == [run EXCEPT !.log = Finish(run.log)]
        downloadLink == run.operation.uri
    IN  IF downloadLink = NoLocator
        THEN Caught(r, done, NoLinkError)
        ELSE /\ runs' = [runs EXCEPT ![r] =
                            [done EXCEPT !.pc = "fetching",
                                         !.log = Append(done.log, DownloadRequest(downloadLink))]]
             /\ progress' = Pct(100)
             /\ UNCHANGED <<appState, imageFile, videoUrl, error, apiKeyReady, started, now>>
             /\ UNCHANGED <<storeVars, estVars, classVars>>

\* The test of the loop, before its first turn and after every turn.
Loop(r, run, reported) ==
    IF Continue(run.operation)
    THEN /\ runs' = [runs EXCEPT ![r] = [run EXCEPT !.pc = "waiting"]]
         /\ progress' = reported
         /\ UNCHANGED <<appState, imageFile, videoUrl, error, apiKeyReady, started, now>>
         /\ UNCHANGED <<storeVars, estVars, classVars>>
    ELSE Resolve(r, run)

Polls(log) == Cardinality({i \in 1..Len(log) : log[i].type = "poll"})

(***************************************************************************)
(* The handlers of App                                                     *)
(***************************************************************************)
Usable == loaded /\ ~crashed /\ apiKeyReady

handleImageUpload(file) ==
    /\ Usable /\ appState = "IDLE"
    /\ imageFile' = file
    /\ appState' = "IDLE"
    /\ videoUrl' = NoVideo
    /\ error' = Null
    /\ progress' = 0
    /\ runs' = [q \in Slots |-> Forget(runs[q])]
    /\ UNCHANGED <<apiKeyReady, started, now>>
    /\ UNCHANGED <<storeVars, estVars, classVars>>

handleReset ==
    /\ Usable /\ appState \in {"SUCCESS", "ERROR"}
    /\ appState' = "IDLE"
    /\ imageFile' = NoImage
    /\ videoUrl' = NoVideo
    /\ error' = Null
    /\ progress' = 0
    /\ runs' = [q \in Slots |-> Forget(runs[q])]
    /\ UNCHANGED <<apiKeyReady, started, now>>
    /\ UNCHANGED <<storeVars, estVars, classVars>>

handleSelectKey ==
    /\ loaded /\ ~crashed /\ ~apiKeyReady
    /\ apiKeyReady' = TRUE
    /\ error' = Null
    /\ runs' = [q \in Slots |-> Forget(runs[q])]
    /\ UNCHANGED <<appState, imageFile, videoUrl, progress, started, now>>
    /\ UNCHANGED <<storeVars, estVars, classVars>>

\* handleAnimate up to the first await of animateImage, called at most
\* `starts` times.  The button that calls it is rendered in IDLE only.
handleAnimateWithin(starts) ==
    /\ Usable /\ appState = "IDLE" /\ imageFile # NoImage
    /\ started < starts
    /\ \E r \in Slots :
         /\ Free(r) /\ \A q \in Slots : Free(q) => r <= q
         /\ runs' = [q \in Slots |->
                IF q = r
                THEN [NoRun EXCEPT !.no = started + 1, !.pc = "reading", !.image = imageFile,
                                   !.startTime = now, !.log = <<Progressed(InitialProgress)>>,
                                   !.alone = \A q2 \in Slots : Free(q2),
                                   !.historyBefore = history, !.storageBefore = storage]
                ELSE Forget(runs[q])]
    /\ started' = started + 1
    /\ appState' = "ANIMATING"
    /\ error' = Null
    /\ progress' = InitialProgress
    /\ UNCHANGED <<imageFile, videoUrl, apiKeyReady, now>>
    /\ UNCHANGED <<storeVars, estVars, classVars>>

handleAnimate == handleAnimateWithin(MaxStarts)

\* A history item is clicked: its video is decoded and shown.  VideoHistory
\* is rendered below the content in every appState once a key is there.
handleSelectHistoryItem(item) ==
    /\ Usable
    /\ Get(item, "videoBase64") # Undefined
    /\ videoUrl' = ObjectURL("history", item.id)
    /\ appState' = "SUCCESS"
    /\ imageFile' = NoImage
    /\ progress' = 0
    /\ runs' = [q \in Slots |-> Forget(runs[q])]
    /\ UNCHANGED <<error, apiKeyReady, started, now>>
    /\ UNCHANGED <<storeVars, estVars, classVars>>

\* VideoHistory: the tile of the i-th item is clicked,
\* onClick={() => onSelect(item)}.
onSelect(i) ==
    /\ IsArray(history) /\ i <= Len(history.v)
    /\ handleSelectHistoryItem(history.v[i])

\* Promise.all([fileToBase64, getImageDimensions]) settles; generateVideos
\* is called.
ReadDone(r) ==
    LET run == runs[r]
    IN  /\ run.pc = "reading"
        /\ \/ /\ runs' = [runs EXCEPT ![r] =
                      [run EXCEPT !.pc = "submitting",
                                  !.log = Append(run.log, SubmitRequest(aspectRatio(run.image)))]]
              /\ UNCHANGED <<appState, imageFile, videoUrl, error, apiKeyReady, progress, started, now>>
              /\ UNCHANGED <<storeVars, estVars, classVars>>
           \/ \E e \in ReadErrors : Caught(r, run, e)

\* generateVideos settles.
SubmitDone(r) ==
    LET run == runs[r]
    IN  /\ run.pc = "submitting"
        /\ \/ \E op \in Operations :
                LET got == [run EXCEPT !.operation = op, !.log = Append(run.log, Answer(op))]
                IN  Loop(r, got, progress)
           \/ \E e \in RemoteErrors : Caught(r, run, e)

\* the loop that gives up once twice the expected duration has passed
TimerFires_Deadline(r) ==
    LET run == runs[r]
    IN  /\ run.pc = "waiting"
        /\ Polls(run.log) < MaxPolls
        /\ Elapsed(run.startTime) < 2 * EXPECTED_ANIMATION_DURATION_MS
        /\ \E d \in {1, LongDelay} : now' = now + d
        /\ runs' = [runs EXCEPT ![r] =
                      [run EXCEPT !.pc = "polling", !.log = Append(run.log, PollRequest)]]
        /\ UNCHANGED <<appState, imageFile, videoUrl, error, apiKeyReady, progress, started>>
        /\ UNCHANGED <<storeVars, estVars, classVars>>

\* The timer of the loop fires; getVideosOperation is called.  A run makes
\* at most `polls` status checks.
TimerFiresWithin(r, polls) ==
    LET run == runs[r]
    IN  /\ run.pc = "waiting"
        /\ Polls(run.log) < polls
        /\ \E d \in {1, LongDelay} : now' = now + d
        /\ runs' = [runs EXCEPT ![r] =
                      [run EXCEPT !.pc = "polling", !.log = Append(run.log, PollRequest)]]
        /\ UNCHANGED <<appState, imageFile, videoUrl, error, apiKeyReady, progress, started>>
        /\ UNCHANGED <<storeVars, estVars, classVars>>

TimerFires(r) == TimerFiresWithin(r, MaxPolls)

\* getVideosOperation settles.
PollDoneWithin(r, polls) ==
    LET run == runs[r]
    IN  /\ run.pc = "polling"
        /\ \/ \E op \in Operations :
                /\ ~op.done => Polls(run.log) < polls
                /\ LET reported == simulatedProgress(Elapsed(run.startTime))
                       got == [run EXCEPT !.operation = op,
                                          !.log = run.log \o <<Answer(op), Progressed(reported)>>]
                   IN  Loop(r, got, reported)
           \/ \E e \in RemoteErrors : Caught(r, run, e)

PollDone(r) == PollDoneWithin(r, MaxPolls)

\* What the download answers when it is not the video: a status and the
\* text of the body.
Refusals ==
    {[status |-> "500", errorText |-> <<"Internal Server Error">>],
     [status |-> "403", errorText |-> <<>>],
     [status |-> "429", errorText |-> <<"Quota", "exceeded">>],
     [status |-> "404", errorText |-> <<"Requested entity was not found">>]}

\* fetch settles, and the body is read.  On success animateImage returns and
\* handleAnimate goes on to its next await.
FetchDone(r) ==
    LET run == runs[r]
    IN  /\ run.pc = "fetching"
        /\ \/ /\ runs' = [runs EXCEPT ![r] =
                      [run EXCEPT !.pc = "encoding", !.result = "succeeded",
                                  !.outcomes = run.outcomes + 1,
                                  !.duration = now - run.startTime,
                                  !.log = Append(run.log, Event("resolved", 0, ""))]]
              /\ appState' = "SUCCESS"
              /\ videoUrl' = ObjectURL("generated", ToString(run.no))
              /\ UNCHANGED <<imageFile, error, apiKeyReady, progress, started, now>>
              /\ UNCHANGED <<storeVars, estVars, classVars>>
           \/ \E a \in Refusals :
                Caught(r, [run EXCEPT !.log = Append(run.log, Event("refused", 0, a.status))],
                       DownloadFailed(a.status, a.errorText))
           \/ Caught(r, run, NetworkError)

\* What localStorage does to the save of a run.
SavePatterns ==
    {[quotaFailures |-> q, final |-> f, quotaError |-> ChromeQuota, otherError |-> SecurityError] :
        q \in {0, HISTORY_LIMIT}, f \in {"ok", "other"}}

\* fileToBase64 and blobToBase64 settle in handleAnimate; the item is saved.
EncodeDone(r) ==
    LET run == runs[r]
    IN  /\ run.pc = "encoding"
        /\ \/ /\ \E p \in SavePatterns :
                    updateAndSaveHistory(
                        HistoryItem(ToString(now), IMAGE_BASE64, VIDEO_BASE64, VIDEO_MIME,
                                    run.duration, MODEL_NAME), p)
              /\ runs' = [runs EXCEPT ![r] = [run EXCEPT !.pc = "settled"]]
              /\ progress' = 0
              /\ UNCHANGED <<appState, imageFile, videoUrl, error, apiKeyReady, started>>
              /\ UNCHANGED <<estVars, classVars>>
           \/ /\ \E e \in {ReadFileError, ReadBlobError, NotAnError} : handleAnimateCatch(e)
              /\ runs' = [runs EXCEPT ![r] = [run EXCEPT !.pc = "settled",
                                                         !.outcomes = run.outcomes + 1]]
              /\ UNCHANGED <<imageFile, videoUrl, started, now>>
              /\ UNCHANGED <<storeVars, estVars, classVars>>

\* The elapsed times the estimator is tried on: every half polling interval
\* up to MaxSamples of them.
Times == {k * (POLLING_INTERVAL_MS \div 2) : k \in 0..MaxSamples}

InitEst ==
    /\ elapsed = <<0, 0>>
    /\ estimates = <<>>

InitClass ==
    /\ raised = <<NotAnError, NotAnError>>
    /\ rejections = <<>>

\* The useState initial values of App.
InitView ==
    /\ InitEst
    /\ InitClass
    /\ appState = "IDLE"
    /\ imageFile = NoImage
    /\ error = Null
    /\ apiKeyReady = TRUE
    /\ progress = 0
    /\ videoUrl = NoVideo
    /\ started = 0

InitApp ==
    /\ InitView
    /\ runs = [r \in 1..MaxRuns |-> NoRun]

\* The page is opened; the slot holds the entries of an earlier session and
\* storage is allowed.
Opened ==
    /\ history = Arr(<<>>)
    /\ storage = JSONstringify(Descending(MaxPast))
    /\ loaded = FALSE
    /\ crashed = FALSE
    /\ available = TRUE
    /\ now = SessionStart
    /\ inserted = FALSE
    /\ last = NoOp
    /\ written = NotWritten

InitRun == Opened /\ InitApp

\* The store and the app as InitRun leaves them, without the estimator.
Idle ==
    /\ history = Arr(<<>>) /\ storage = Absent /\ loaded = TRUE /\ crashed = FALSE
    /\ available = TRUE /\ now = SessionStart /\ inserted = FALSE /\ last = NoOp
    /\ written = NotWritten
    /\ appState = "IDLE" /\ imageFile = NoImage /\ error = Null /\ apiKeyReady = TRUE
    /\ progress = 0 /\ videoUrl = NoVideo
    /\ runs = [r \in 1..MaxRuns |-> NoRun] /\ started = 0

NextRun ==
    \/ LoadHistory
    \/ \E file \in Images : handleImageUpload(file)
    \/ handleAnimate
    \/ handleReset
    \/ handleSelectKey
    \/ \E r \in 1..MaxRuns : ReadDone(r)
    \/ \E r \in 1..MaxRuns : SubmitDone(r)
    \/ \E r \in 1..MaxRuns : TimerFires(r)
    \/ \E r \in 1..MaxRuns : PollDone(r)
    \/ \E r \in 1..MaxRuns : FetchDone(r)
    \/ \E r \in 1..MaxRuns : EncodeDone(r)

SpecRun == InitRun /\ [][NextRun]_vars

(***************************************************************************)
(* One generation whose timers fire and whose requests settle              *)
(***************************************************************************)
NextFair ==
    \/ LoadHistory
    \/ \E file \in Images : handleImageUpload(file)
    \/ handleAnimate
    \/ \E r \in 1..MaxRuns : ReadDone(r)
    \/ \E r \in 1..MaxRuns : SubmitDone(r)
    \/ \E r \in 1..MaxRuns : TimerFires(r)
    \/ \E r \in 1..MaxRuns : PollDone(r)
    \/ \E r \in 1..MaxRuns : FetchDone(r)
    \/ \E r \in 1..MaxRuns : EncodeDone(r)

\* A timer that was set fires, and a request or a read that was started
\* settles, with a value or with an error.
Settles ==
    \A r \in 1..MaxRuns :
        /\ WF_vars(ReadDone(r))
        /\ WF_vars(SubmitDone(r))
        /\ WF_vars(TimerFires(r))
        /\ WF_vars(PollDone(r))
        /\ WF_vars(FetchDone(r))
        /\ WF_vars(EncodeDone(r))

SpecFair == InitRun /\ [][NextFair]_vars /\ Settles

(***************************************************************************)
(* The page with its history list: generations that overlap                *)
(***************************************************************************)
\* The image that is uploaded here: its shape plays no part in how
\* generations overlap.
FlightImages == {[width |-> 1, height |-> 1]}

InitFlight == Opened /\ InitView /\ runs = [r \in 1..MaxFlights |-> NoRun]

NextFlight ==
    \/ LoadHistory
    \/ \E file \in FlightImages : handleImageUpload(file)
    \/ handleAnimateWithin(MaxFlights)
    \/ handleReset
    \/ handleSelectKey
    \/ \E i \in 1..HISTORY_LIMIT : onSelect(i)
    \/ handleClearHistory
    \/ \E r \in 1..MaxFlights : ReadDone(r)
    \/ \E r \in 1..MaxFlights : SubmitDone(r)
    \/ \E r \in 1..MaxFlights : TimerFiresWithin(r, MaxFlightPolls)
    \/ \E r \in 1..MaxFlights : PollDoneWithin(r, MaxFlightPolls)
    \/ \E r \in 1..MaxFlights : FetchDone(r)
    \/ \E r \in 1..MaxFlights : EncodeDone(r)

SpecFlight == InitFlight /\ [][NextFlight]_vars

(***************************************************************************)
(* The progress estimator on its own                                       *)
(***************************************************************************)
InitEstimate ==
    /\ Idle
    /\ InitClass
    /\ elapsed \in Times \X Times
    /\ estimates = <<>>

\* The estimator is called on both elapsed times.
Estimate ==
    /\ estimates = <<>>
    /\ estimates' = <<simulatedProgress(elapsed[1]), simulatedProgress(elapsed[2])>>
    /\ UNCHANGED <<elapsed, now>>
    /\ UNCHANGED <<storeVars, appVars, classVars>>

NextEstimate == Estimate

SpecEstimate == InitEstimate /\ [][NextEstimate]_vars

(***************************************************************************)
(* The catch block of animateImage on its own                              *)
(***************************************************************************)
\* What can be thrown inside the try block of animateImage.
Thrown ==
    RemoteErrors \cup ReadErrors \cup {NoLinkError}
    \cup {DownloadFailed(a.status, a.errorText) : a \in Refusals}

\* The phrases the catch block looks for, as they are written in messages,
\* and one it does not look for.
Phrases ==
    {"Requested entity was not found", "Failed to read file", "Could not read image file",
     "API key not valid", "rate limit", "RESOURCE_EXHAUSTED", "Quota", "Deadline exceeded",
     "503 Service Unavailable", "Download failed with status",
     "no download link was returned", "Failed to fetch"}

\* Errors whose text holds two of the phrases, as plain text or as the
\* message and the status of a JSON error.
MixedErrors ==
    {ErrorOf(Plain(<<a, b>>)) : a, b \in Phrases}
    \cup {ErrorOf(JsonError(<<a>>, b, <<>>)) : a \in Phrases, b \in {"RESOURCE_EXHAUSTED", "UNAVAILABLE"}}

InitClassify ==
    /\ Idle
    /\ InitEst
    /\ raised \in (Thrown \cup MixedErrors) \X Thrown
    /\ rejections = <<>>

\* The catch block runs on both values.
Classify ==
    /\ rejections = <<>>
    /\ rejections' = <<classify(raised[1]), classify(raised[2])>>
    /\ UNCHANGED <<raised, now>>
    /\ UNCHANGED <<storeVars, appVars, estVars>>

NextClassify == Classify

SpecClassify == InitClassify /\ [][NextClassify]_vars

(***************************************************************************)
(* The history store on its own: the page with no generation under way     *)
(***************************************************************************)
Init == InitStore /\ InitApp

Next ==
    \/ LoadHistory
    \/ Insert
    \/ handleClearHistory
    \/ Restart
    \/ AccessChange
    \/ Tick

Spec == Init /\ [][Next]_vars

(***************************************************************************)
(* Properties of the history store                                         *)
(***************************************************************************)
\* The latest operation is an insert whose updater returned.
InsertReturned == last.op = "insert" /\ ~last.failed

\* [e, ...old] cut to HISTORY_LIMIT entries, for the latest insert.
Truncated ==
    LET all == <<last.item>> \o last.before.v
    IN  SubSeq(all, 1, Min(Len(all), HISTORY_LIMIT))

\* The entries of the persisted blob, when it is a JSON array.
PersistedIsList == storage.kind = "json" /\ IsArray(storage.value)
Persisted == storage.value.v

\* C1: once an insert has completed, the in-memory history is a list of at
\* most HISTORY_LIMIT entries, whatever inserts and clears follow and
\* whatever the storage layer answered.
Thm_C1 == inserted => (IsArray(history) /\ Len(history.v) <= HISTORY_LIMIT)

\* an insert into a full store whose write failed with a non-quota error
\* left a full in-memory list
Wit_C1 ==
    /\ inserted /\ InsertReturned
    /\ Len(last.before.v) = HISTORY_LIMIT
    /\ last.final = "other"
    /\ Len(history.v) = HISTORY_LIMIT

\* C2: when the first write succeeds, an insert of e into a store of exactly
\* HISTORY_LIMIT entries [h1..h5] leaves [e, h1, h2, h3, h4], and an insert
\* into an empty store leaves [e]; the persisted list is the same list.
Thm_C2 ==
    (InsertReturned /\ last.quotaFailures = 0 /\ last.final = "ok") =>
        /\ Len(last.before.v) = HISTORY_LIMIT =>
              history.v = <<last.item>> \o SubSeq(last.before.v, 1, HISTORY_LIMIT - 1)
        /\ Len(last.before.v) = 0 => history.v = <<last.item>>
        /\ PersistedIsList /\ Persisted = history.v

\* an insert into a full store with entries of different age succeeded at
\* its first write
Wit_C2 ==
    /\ InsertReturned /\ last.quotaFailures = 0 /\ last.final = "ok"
    /\ Len(last.before.v) = HISTORY_LIMIT
    /\ last.before.v[1].id # last.before.v[HISTORY_LIMIT].id
    /\ last.item.id # last.before.v[1].id

\* C3: when the storage layer rejects with a quota error every write of more
\* than one entry and accepts the write of one entry, an insert of e into a
\* store of HISTORY_LIMIT entries ends with exactly [e], in memory and in
\* the persisted blob.
Thm_C3 ==
    (InsertReturned /\ Len(last.before.v) = HISTORY_LIMIT
       /\ last.quotaFailures = HISTORY_LIMIT - 1 /\ last.final = "ok") =>
        /\ history.v = <<last.item>>
        /\ PersistedIsList /\ Persisted = <<last.item>>

\* that insert has happened, with e newer than the oldest entry of the store
Wit_C3 ==
    /\ InsertReturned /\ Len(last.before.v) = HISTORY_LIMIT
    /\ last.quotaFailures = HISTORY_LIMIT - 1 /\ last.final = "ok"
    /\ last.item.id # last.before.v[HISTORY_LIMIT].id
    /\ Len(history.v) = 1

\* C4: after insert(e) the in-memory list is non-empty and its first element
\* is e, for every store content and every pattern of quota failures.
Cex_C4 ==
    InsertReturned => (Len(history.v) > 0 /\ history.v[1] = last.item)

\* No persisted entry is newer than the newest in-memory entry, and after an
\* insert whose write succeeded the persisted list is the in-memory list.
Fresh ==
    /\ PersistedIsList =>
          \A i \in 1..Len(Persisted) :
              \E j \in 1..Len(history.v) :
                  parseInt(history.v[j].id) >= parseInt(Persisted[i].id)
    /\ (InsertReturned /\ last.final = "ok") =>
          (PersistedIsList /\ Persisted = history.v)

\* C5 as stated: in every state of the running app after load, whatever
\* inserts and clears followed and whatever the storage layer answered, the
\* in-memory view is at least as fresh as the persisted view.
Cex_C5 == (loaded /\ ~crashed) => Fresh

\* C5 as amended: the same, except while the latest history operation is a
\* clear whose removal of the persisted blob failed.
Thm_C5 == (loaded /\ ~crashed /\ ~(last.op = "clear" /\ last.failed)) => Fresh

\* after an insert whose write failed with a non-quota error the in-memory
\* list is ahead of a persisted list that is still there
Wit_C5 ==
    /\ loaded /\ ~crashed
    /\ InsertReturned /\ last.final = "other"
    /\ PersistedIsList /\ Len(Persisted) > 0
    /\ history.v # Persisted
    /\ history.v[1] = last.item

\* C6: every quota failure drops the oldest retained entry and is followed by
\* one retry; an insert makes at most HISTORY_LIMIT writes; when every write
\* fails with a quota error the retained list ends empty and the persisted
\* slot is removed.
Thm_C6 ==
    InsertReturned =>
        /\ last.attempts <= HISTORY_LIMIT
        /\ last.attempts = last.quotaFailures + (IF last.final = "none" THEN 0 ELSE 1)
        /\ last.final = "ok" =>
              /\ history.v = SubSeq(Truncated, 1, Len(Truncated) - last.quotaFailures)
              /\ PersistedIsList /\ Persisted = history.v
        /\ last.final = "none" => (history.v = <<>> /\ storage = Absent)

\* an insert into a full, persisted store met a quota error at every write
Wit_C6 ==
    /\ InsertReturned
    /\ Len(last.before.v) = HISTORY_LIMIT
    /\ last.blobBefore # Absent
    /\ last.quotaFailures = HISTORY_LIMIT /\ last.final = "none"
    /\ last.attempts = HISTORY_LIMIT

\* C7: a write that fails with an error that is not a quota error, also after
\* quota failures in the same insert, ends the retries: the in-memory list
\* is [e, ...old] cut to HISTORY_LIMIT, the persisted blob is the one from
\* before the insert, and no exception escapes.
Thm_C7 ==
    (last.op = "insert" /\ IsArray(last.before) /\ last.final = "other") =>
        /\ ~last.failed /\ ~crashed
        /\ last.attempts = last.quotaFailures + 1
        /\ history.v = Truncated
        /\ storage = last.blobBefore

\* a non-quota error after two quota failures, on a full store
Wit_C7 ==
    /\ InsertReturned /\ last.final = "other"
    /\ last.quotaFailures = 2
    /\ Len(last.before.v) = HISTORY_LIMIT
    /\ last.blobBefore # Absent

LoadRead == last.op = "load" /\ ~last.failed

CorruptBlobs ==
    {EmptyText, Unparseable, JsonText(JsonObject), JsonText(Arr(<<LegacyItem("1")>>))}

\* C10: a load of any corrupt blob, also one that parses but is not a list
\* of HistoryItem, leaves an empty in-memory history and lets no exception
\* escape.
Cex_C10 ==
    (LoadRead /\ last.blobBefore \in CorruptBlobs) =>
        (history = Arr(<<>>) /\ ~crashed)

(***************************************************************************)
(* Round trip through the slot, and clear                                  *)
(***************************************************************************)
\* Two objects agree on field k: both lack it, or both have the same value.
SameField(a, b, k) ==
    /\ (k \in DOMAIN a) = (k \in DOMAIN b)
    /\ k \in DOMAIN a => a[k] = b[k]
SameItem(a, b) == \A k \in ItemKeys : SameField(a, b, k)

\* The load effect read a slot whose content an insert of an earlier page
\* load had written.
LoadedAfterInsert == LoadRead /\ written.by = "insert" /\ inserted = FALSE

Thm_C12 ==
    /\ last.op = "clear" =>
          /\ history = Arr(<<>>) /\ ~crashed
          /\ ~last.failed => storage = Absent
          /\ last.failed => storage = last.blobBefore
    /\ (LoadRead /\ written.by = "clear") =>
          (last.blobBefore = Absent /\ history = Arr(<<>>) /\ ~crashed)

\* a persisted, non-empty history was cleared, the page reloaded and the
\* load effect has run
Wit_C12 ==
    /\ LoadRead /\ written.by = "clear"
    /\ loaded /\ history = Arr(<<>>)

\* a clear met a failing removeItem and left the blob in the slot
Reach_ClearFailed ==
    /\ last.op = "clear" /\ last.failed
    /\ PersistedIsList /\ Len(Persisted) > 0

(***************************************************************************)
(* Properties of a run of animateImage                                     *)
(***************************************************************************)
\* The runs whose record of events is at hand.
Recorded == {r \in Slots : runs[r].log # <<>>}

IsProgress(e) == e.type = "progress"
IsAnswer(e) == e.type = "answer"
IsDownload(e) == e.type = "download"
IsEnd(e) == e.type \in {"resolved", "rejected"}

\* The values handed to onProgress, the answers of the remote to the
\* submission and to the status checks, and the download requests, each in order.
Reported(log) == SelectSeq(log, IsProgress)
Answers(log) == SelectSeq(log, IsAnswer)
Downloads(log) == SelectSeq(log, IsDownload)

\* The state of the run as the log shows it: 1 Submitting, 2 Polling,
\* 3 Resolving, 4 Succeeded or Failed.
Rank(e) ==
    CASE e.type = "submit" -> 1
      [] e.type = "poll" -> 2
      [] e.type = "download" -> 3
      [] IsEnd(e) -> 4
      [] OTHER -> 0

HasRank(e) == Rank(e) > 0
IsSubmit(e) == e.type = "submit"

\* Where the remote first answered, and where it first answered done
\* (past the end of the log: it has not).
First(log, n) ==
    LET at == {i \in 1..Len(log) : IsAnswer(log[i]) /\ log[i].n >= n}
    IN  IF at = {} THEN Len(log) + 1 ELSE CHOOSE i \in at : \A j \in at : i <= j
FirstAnswer(log) == First(log, 0)
FirstDone(log) == First(log, 1)

InOrder(log) ==
    LET ranked == SelectSeq(log, HasRank)
        answered == FirstAnswer(log)
        done == FirstDone(log)
    IN  \* the states follow each other in the order of their ranks
        /\ \A i \in 1..(Len(ranked) - 1) : Rank(ranked[i]) <= Rank(ranked[i + 1])
        \* one submission
        /\ Len(SelectSeq(log, IsSubmit)) <= 1
        /\ \A i \in 1..Len(log) :
              \* a status check only after the submission answered, and only
              \* while no answer said done
              /\ log[i].type = "poll" => (answered < i /\ i < done)
              \* a download only after an answer said done
              /\ log[i].type = "download" => done < i
              \* nothing after Succeeded or Failed
              /\ IsEnd(log[i]) => i = Len(log)

\* C13: every run of animateImage goes through Submitting, Polling,
\* Resolving and then Succeeded or Failed in this order: no status check
\* before the submission returned a handle, no download before the remote
\* reported done, and no request and no progress call after the run has
\* succeeded or failed.
Thm_C13 ==
    \A r \in Recorded :
        LET latest == runs[r].log[Len(runs[r].log)]
        IN  /\ InOrder(runs[r].log)
            /\ (runs[r].result # "pending") = IsEnd(latest)
            /\ runs[r].pc = "submitting" => latest.type = "submit"
            /\ runs[r].pc = "polling" => latest.type = "poll"
            /\ runs[r].pc = "fetching" => latest.type = "download"

\* a run that polled twice, downloaded and succeeded
Wit_C13 ==
    \E r \in Recorded :
        /\ runs[r].result = "succeeded"
        /\ Polls(runs[r].log) = 2
        /\ Len(Downloads(runs[r].log)) = 1

\* The run of C14: the submission and the next two status checks answer
\* done:false, the third status check answers done:true with the locator X,
\* and the download has been requested.
ThreeThenDone(run) ==
    LET a == Answers(run.log)
    IN  /\ Len(a) = 4
        /\ a[1].n = 0 /\ a[2].n = 0 /\ a[3].n = 0
        /\ a[4].n = 1 /\ a[4].s = "X"
        /\ run.pc \in {"fetching", "encoding", "settled"}

\* One download, addressed to X, and five progress calls: the first with 5,
\* the last with 100.
CallsOfThree(run) ==
    LET p == Reported(run.log)
        d == Downloads(run.log)
    IN  /\ Len(p) = 5
        /\ p[1].n = Pct(5)
        /\ p[5].n = Pct(100)
        /\ Len(d) = 1 /\ d[1].s = "X"

Thm_C15 ==
    \A r \in Recorded :
        LET p == Reported(runs[r].log)
        IN  /\ Len(p) <= Polls(runs[r].log) + 2
            /\ \A i \in 1..Len(p) : 0 <= p[i].n /\ p[i].n <= Pct(100)
            /\ \A i \in 1..(Len(p) - 1) : p[i].n <= p[i + 1].n
            /\ runs[r].result = "succeeded" => p[Len(p)].n = Pct(100)

\* a run that succeeded after reporting 5, 12.5, 95 and 100
Wit_C15 ==
    \E r \in Recorded :
        LET p == Reported(runs[r].log)
        IN  /\ runs[r].result = "succeeded"
            /\ Len(p) = 4
            /\ p[2].n = Pct(5) + 90 * POLLING_INTERVAL_MS
            /\ p[3].n = Pct(95)

\* C16: 100 is not reported before the remote has reported the job done:
\* every value reported while no answer has said done is at most 95, however
\* much time has passed.
Thm_C16 ==
    \A r \in Recorded :
        LET log == runs[r].log
            done == FirstDone(log)
        IN  \A i \in 1..Len(log) :
                (IsProgress(log[i]) /\ log[i].n > Pct(95)) => done < i

\* a job still pending after twice the expected duration, with 95 reported
Wit_C16 ==
    \E r \in Recorded :
        /\ runs[r].pc = "waiting"
        /\ Elapsed(runs[r].startTime) >= 2 * EXPECTED_ANIMATION_DURATION_MS
        /\ progress = Pct(95)
        /\ FirstDone(runs[r].log) > Len(runs[r].log)

(***************************************************************************)
(* Properties of the progress estimator                                    *)
(***************************************************************************)
\* C17: for elapsed times 0 <= t1 <= t2 the estimate of t1 is at most the
\* estimate of t2, and every estimate lies in [5, 95]: 5 at t = 0, and 95
\* from the expected duration of 120000 ms on.
Thm_C17 ==
    estimates # <<>> =>
        /\ elapsed[1] <= elapsed[2] => estimates[1] <= estimates[2]
        /\ \A i \in 1..2 :
              /\ Pct(5) <= estimates[i] /\ estimates[i] <= Pct(95)
              /\ elapsed[i] = 0 => estimates[i] = Pct(5)
              /\ elapsed[i] >= EXPECTED_ANIMATION_DURATION_MS => estimates[i] = Pct(95)

\* an estimate below 95 for a time before the expected duration, and 95 for
\* a time after it
Wit_C17 ==
    /\ estimates # <<>>
    /\ 0 < elapsed[1] /\ elapsed[1] < EXPECTED_ANIMATION_DURATION_MS
    /\ EXPECTED_ANIMATION_DURATION_MS < elapsed[2]
    /\ estimates[1] < estimates[2] /\ estimates[2] = Pct(95)

(***************************************************************************)
(* Properties of the failures of a run                                     *)
(***************************************************************************)
Failed == {r \in Recorded : runs[r].result = "failed"}

\* The download of the run answered with a status that is not a success.
Refused(run) == \E i \in 1..Len(run.log) : run.log[i].type = "refused"

\* C18: when the download answers with a non-success status, whatever the
\* status and the text of the body, the run is rejected with the
\* DownloadError category, and the in-memory history and the persisted blob
\* are as they were before the run.
Cex_C18 ==
    \A r \in Failed : Refused(runs[r]) =>
        /\ runs[r].rejection.category = "DownloadError"
        /\ runs[r].alone =>
              (history = runs[r].historyBefore /\ storage = runs[r].storageBefore)

Categories ==
    {"UnexpectedError", "InputError", "AuthError", "QuotaError", "TransientError",
     "DownloadError", "NoResultError", "UnknownError", "CredentialResetSignal"}

\* C19: whatever reaches the catch block of animateImage (an Error with
\* JSON text, an Error with other text that matches nothing, a value that is
\* not an Error), the run ends with exactly one rejection, which carries a
\* message of one category; a run that has not failed has no rejection.
Thm_C19 ==
    /\ \A r \in Failed :
          /\ runs[r].pc = "settled"
          /\ runs[r].rejection.category \in Categories
          /\ runs[r].rejection.error.isError
          /\ runs[r].rejection.error.text.words # <<>>
          /\ Cardinality({i \in 1..Len(runs[r].log) : runs[r].log[i].type = "rejected"}) = 1
          /\ runs[r].log[Len(runs[r].log)] = Event("rejected", 0, runs[r].rejection.category)
          /\ runs[r].after.appState \in {"ERROR", "IDLE"}
    /\ \A r \in Recorded \ Failed :
          /\ runs[r].rejection = NoRejection
          /\ \A i \in 1..Len(runs[r].log) : runs[r].log[i].type # "rejected"

\* a value that is not an Error was thrown and the run was rejected with the
\* message for the unexpected
Wit_C19 ==
    \E r \in Failed :
        /\ runs[r].raw = NotAnError
        /\ runs[r].rejection.category = "UnexpectedError"
        /\ error = Str(<<MSG_UNEXPECTED>>)

\* C20: the error with the text {"error":{"message":"Requested entity was
\* not found","status":"NOT_FOUND"}} is classified as CredentialResetSignal
\* and thrown again as it is; handleAnimate then sets apiKeyReady to false
\* and the app state to IDLE, not to ERROR.
Thm_C20 ==
    \A r \in Failed : runs[r].raw = NotFoundError =>
        /\ runs[r].rejection.category = "CredentialResetSignal"
        /\ runs[r].rejection.rethrown
        /\ runs[r].rejection.error = NotFoundError
        /\ runs[r].after.apiKeyReady = FALSE
        /\ runs[r].after.appState = "IDLE"
        /\ runs[r].after.error = Str(<<MSG_KEY>>)

\* a status check failed with that error and the key screen is shown
Wit_C20 ==
    \E r \in Failed :
        /\ runs[r].raw = NotFoundError
        /\ Polls(runs[r].log) > 0
        /\ ~apiKeyReady /\ appState = "IDLE"

(***************************************************************************)
(* Properties of the messages of rejections                                *)
(***************************************************************************)
\* The messages that do not depend on what was thrown.
FixedMessages ==
    {MSG_UNEXPECTED, MSG_INPUT, MSG_AUTH, MSG_QUOTA, MSG_TRANSIENT, MSG_DOWNLOAD, MSG_NORESULT}

Converted(rejection) == rejection.category \notin {"CredentialResetSignal", "UnknownError"}

\* C21: for every category other than CredentialResetSignal and UnknownError
\* the message of the rejection is a fixed string: two thrown errors of the
\* same such category give the same message, whatever their texts; the
\* message of UnknownError is the technical prefix followed by the text of
\* the thrown error as it is.
Thm_C21 ==
    rejections # <<>> =>
        /\ \A i, j \in 1..2 :
              (Converted(rejections[i]) /\ rejections[i].category = rejections[j].category)
                  => rejections[i].error = rejections[j].error
        /\ \A i \in 1..2 :
              /\ Converted(rejections[i]) =>
                    \E m \in FixedMessages : rejections[i].error = ErrorOf(Plain(<<m>>))
              /\ rejections[i].category = "UnknownError" =>
                    rejections[i].error =
                        ErrorOf(Plain(<<MSG_TECHNICAL>> \o raised[i].text.words))

\* a quota error of the remote and a refused download with a quota text,
\* both rejected with the quota message, next to nothing of their own texts
Wit_C21 ==
    /\ rejections # <<>>
    /\ raised[1] = ExhaustedError
    /\ startsWithDownloadFailed(raised[2].text)
    /\ rejections[1].category = "QuotaError"
    /\ rejections[2] = rejections[1]

\* an error that matches nothing was rejected with its own text
Reach_Verbatim ==
    /\ rejections # <<>>
    /\ raised[1] = NetworkError
    /\ rejections[1].category = "UnknownError"

(***************************************************************************)
(* Properties of what the app shows after a failed run                     *)
(***************************************************************************)
\* What handleAnimate left: the key screen, or the failure display.
KeyScreen(after) == ~after.apiKeyReady /\ after.appState = "IDLE"
FailureDisplay(after) == after.apiKeyReady /\ after.appState = "ERROR"

\* C22: after a failed run the app sets apiKeyReady to false and returns to
\* IDLE if and only if the catch block of animateImage threw the error
\* again as CredentialResetSignal; for every other category, UnknownError
\* with the text of the error included, the app ends in ERROR.
Cex_C22 ==
    \A r \in Failed :
        /\ KeyScreen(runs[r].after) <=> runs[r].rejection.category = "CredentialResetSignal"
        /\ runs[r].rejection.category # "CredentialResetSignal" =>
              FailureDisplay(runs[r].after)

\* C23: handleAnimate ends a failed run once: it leaves ANIMATING one time,
\* and what it leaves is either the failure display with the message of
\* the one rejection or the key screen, not both and not neither.  Until
\* the user acts the app stays as the run left it.
Thm_C23 ==
    \A r \in Failed :
        LET run == runs[r]
            ends == {i \in 1..Len(run.log) : run.log[i].type = "rejected"}
        IN  /\ run.outcomes = 1
            /\ Cardinality(ends) = 1
            /\ KeyScreen(run.after) # FailureDisplay(run.after)
            /\ FailureDisplay(run.after) => run.after.error = Str(run.rejection.error.text.words)
            /\ KeyScreen(run.after) => run.after.error = Str(<<MSG_KEY>>)
            /\ run.alone =>
                  /\ appState = run.after.appState
                  /\ apiKeyReady = run.after.apiKeyReady
                  /\ error = run.after.error
                  /\ progress = 0

\* a run whose second status check met an unavailable service shows the
\* message for it
Wit_C23 ==
    \E r \in Failed :
        /\ runs[r].raw = UnavailableError
        /\ Polls(runs[r].log) = 2
        /\ appState = "ERROR"
        /\ error = Str(<<MSG_TRANSIENT>>)

\* a failed run ended at the key screen
Reach_KeyScreen == \E r \in Failed : KeyScreen(runs[r].after) /\ ~apiKeyReady

(***************************************************************************)
(* Properties of the save of a result                                      *)
(***************************************************************************)
\* The runs that animateImage resolved.
Succeeded == {r \in Recorded : runs[r].result = "succeeded"}

\* C24: once animateImage has returned the video and the app is in SUCCESS,
\* no failure of the base64 conversions and no failure of the storage layer
\* moves the app out of SUCCESS or sets an error message.
Cex_C24 ==
    \A r \in Succeeded :
        runs[r].alone => (appState = "SUCCESS" /\ error = Null)

\* The list `new` is the list `old` as it was, or emptied, or with one entry
\* put in front of it and entries dropped at its end.
Kept(old, new) ==
    \/ new = old
    \/ new = <<>>
    \/ /\ Len(new) <= Len(old) + 1
       /\ \A i \in 2..Len(new) : new[i] = old[i - 1]

\* handleAnimate saves the result of a run that animateImage resolved.
Saves(r) ==
    /\ runs[r].result = "succeeded"
    /\ runs[r].pc = "encoding"
    /\ runs'[r].pc = "settled"

\* A step of the loaded app changes the history and the slot only when a
\* successful run saves its result; the entries it leaves are the new one
\* and entries that were there, unchanged and in their order.
OnlySaved ==
    loaded =>
        /\ (history' # history \/ storage' # storage) => \E r \in Slots : Saves(r)
        /\ (IsArray(history) /\ IsArray(history')) => Kept(history.v, history'.v)
        /\ (storage' # storage /\ storage'.kind = "json") =>
              /\ Len(storage'.value.v) <= Len(history'.v)
              /\ \A i \in 1..Len(storage'.value.v) :
                    SameItem(storage'.value.v[i], history'.v[i])

\* A failed run left the history and the slot as they were when it began.
FailedKeeps ==
    \A r \in Failed :
        runs[r].alone => (history = runs[r].historyBefore /\ storage = runs[r].storageBefore)

\* C25: a history entry is created only by a successful run: a run that
\* ends Failed (at the submission, at a status check, for a missing
\* locator, at the download, for a credential reset) leaves the in-memory
\* history and the persisted blob as they were, and an entry that is in the
\* store is not modified by what follows, only shifted or dropped.
Thm_C25 == []FailedKeeps /\ [][OnlySaved]_vars

\* a run whose download was refused with status 500 left the entry of the
\* earlier session where it was, in memory and in the slot
Wit_C25 ==
    \E r \in Failed :
        /\ Refused(runs[r])
        /\ runs[r].rejection.category = "DownloadError"
        /\ Len(history.v) = MaxPast
        /\ storage = JSONstringify(history.v)

\* the result of a run was saved in front of the entry of the earlier session
Reach_Shifted ==
    \E r \in Succeeded :
        /\ runs[r].pc = "settled"
        /\ Len(history.v) = MaxPast + 1
        /\ history.v[1].id = ToString(now)
        /\ history.v[2].id = ToString(MaxPast)

(***************************************************************************)
(* Properties of the ids of the entries                                    *)
(***************************************************************************)
\* The ids, read as numbers, decrease from each entry to the next: the
\* entries are in the order newest first and no two have the same id.
Descends(list) ==
    \A i \in 1..(Len(list) - 1) : parseInt(list[i].id) > parseInt(list[i + 1].id)

\* C26: in every reachable state the entries of the history, in memory and
\* in the persisted blob, have pairwise distinct ids, and the list is sorted
\* newest first by id; Date.now() does not go back.
Cex_C26 ==
    /\ IsArray(history) => Descends(history.v)
    /\ PersistedIsList => Descends(Persisted)

(***************************************************************************)
(* Properties of the requests of a run                                     *)
(***************************************************************************)
\* The submissions of a run, in order.
Submissions(log) == SelectSeq(log, IsSubmit)

\* C27: the aspect ratio sent with the submission is 16:9 exactly when the
\* image is wider than high, and 9:16 for every image at least as high as
\* wide, the square one included.
Thm_C27 ==
    \A r \in Recorded :
        LET image == runs[r].image
            sent == Submissions(runs[r].log)
        IN  \A i \in 1..Len(sent) :
                /\ sent[i].s = "16:9" <=> image.width > image.height
                /\ image.height >= image.width => sent[i].s = "9:16"

\* a square image was submitted with 9:16
Wit_C27 ==
    \E r \in Recorded :
        /\ runs[r].image.width = runs[r].image.height
        /\ runs[r].pc = "submitting"
        /\ Submissions(runs[r].log) = <<SubmitRequest("9:16")>>

\* an image wider than high was submitted with 16:9
Reach_Wide ==
    \E r \in Recorded :
        /\ runs[r].image.width > runs[r].image.height
        /\ Submissions(runs[r].log) = <<SubmitRequest("16:9")>>

IsAsk(e) == e.type \in {"submit", "poll"}
IsRejected(e) == e.type = "rejected"

\* The run was rejected while its latest request to the remote, the
\* submission or a status check, was unanswered.
FailedAsking(run) ==
    /\ run.result = "failed"
    /\ Len(run.log) >= 2
    /\ IsAsk(run.log[Len(run.log) - 1])

\* C28: a failure of the submission or of a status check ends the run as
\* Failed with one rejection, and the request is not tried again: the run
\* made one submission, every request before the failing one was answered
\* with done:false, and after the failing request there is no submission,
\* no status check and no download.
Thm_C28 ==
    \A r \in Recorded : FailedAsking(runs[r]) =>
        LET log == runs[r].log
            answers == Answers(log)
        IN  /\ runs[r].pc = "settled"
            /\ IsRejected(log[Len(log)])
            /\ Len(SelectSeq(log, IsRejected)) = 1
            /\ Len(Submissions(log)) = 1
            /\ Len(SelectSeq(log, IsAsk)) = Len(answers) + 1
            /\ \A i \in 1..Len(answers) : answers[i].n = 0
            /\ Downloads(log) = <<>>
            /\ runs[r].raw \in RemoteErrors
            /\ runs[r].rejection = classify(runs[r].raw)

\* the third status check of a run failed in the network
Wit_C28 ==
    \E r \in Failed :
        /\ FailedAsking(runs[r])
        /\ Polls(runs[r].log) = 3
        /\ runs[r].raw = NetworkError
        /\ runs[r].rejection.category = "UnknownError"

\* the submission of a run failed
Reach_SubmitFailed ==
    \E r \in Failed :
        /\ FailedAsking(runs[r])
        /\ Polls(runs[r].log) = 0
        /\ runs[r].raw = DeadlineError

\* The remote reported the job done and gave no locator.
DoneWithoutLocator(run) ==
    LET answers == Answers(run.log)
    IN  /\ Len(answers) > 0
        /\ answers[Len(answers)].n = 1
        /\ answers[Len(answers)].s = NoLocator

\* C29: when the remote reports the job done without a result locator, the
\* run ends Failed with the no-result condition, classified NoResultError,
\* and makes no download request.
Thm_C29 ==
    \A r \in Recorded : DoneWithoutLocator(runs[r]) =>
        /\ runs[r].result = "failed" /\ runs[r].pc = "settled"
        /\ runs[r].raw = NoLinkError
        /\ runs[r].rejection = Rejected("NoResultError", <<MSG_NORESULT>>)
        /\ Downloads(runs[r].log) = <<>>
        /\ runs[r].after.appState = "ERROR"
        /\ runs[r].after.error = Str(<<MSG_NORESULT>>)

\* the second status check of a run answered done without a locator
Wit_C29 ==
    \E r \in Failed :
        /\ DoneWithoutLocator(runs[r])
        /\ Polls(runs[r].log) = 2
        /\ error = Str(<<MSG_NORESULT>>)

(***************************************************************************)
(* Properties of the polling loop                                          *)
(***************************************************************************)
\* animateImage is under way.
Pending(r) == runs[r].pc \in {"reading", "submitting", "waiting", "polling", "fetching"}

\* While the run waits for its timer the latest answer said done:false, the
\* run has not ended, and the timer can fire however much time has passed.
KeepsPolling ==
    \A r \in Slots : runs[r].pc = "waiting" =>
        LET answers == Answers(runs[r].log)
        IN  /\ runs[r].result = "pending"
            /\ Len(answers) > 0 /\ answers[Len(answers)].n = 0
            /\ ENABLED TimerFires(r)

\* The run leaves the wait only through the next status check, not before
\* one polling interval has passed.
NextCheck ==
    \A r \in Slots :
        (runs[r].pc = "waiting" /\ runs'[r].pc # "waiting") =>
            /\ runs'[r].pc = "polling"
            /\ runs'[r].log = Append(runs[r].log, PollRequest)
            /\ now' >= now + 1

\* C30: the loop has no timeout of its own.  As long as every status check
\* answers done:false the run stays in the loop and makes the next status
\* check after a polling interval, however many checks there have been and
\* however much time has passed; when the remote reports done or a request
\* fails, the run ends Succeeded or Failed.
Thm_C30 ==
    /\ []KeepsPolling
    /\ [][NextCheck]_vars
    /\ \A r \in 1..MaxRuns : Pending(r) ~> (runs[r].result # "pending")

\* the last status check the remote answers is under way, after three
\* times the expected duration
Wit_C30 ==
    \E r \in Slots :
        /\ runs[r].pc = "polling"
        /\ Polls(runs[r].log) = MaxPolls
        /\ Elapsed(runs[r].startTime) >= 3 * EXPECTED_ANIMATION_DURATION_MS

(***************************************************************************)
(* Properties of the order of the classification                           *)
(***************************************************************************)
\* The categories in the order of the table.
TableOrder ==
    <<"CredentialResetSignal", "InputError", "AuthError", "QuotaError", "TransientError",
      "DownloadError", "NoResultError">>

\* The test of one entry of the table, taken alone.
Matches(category, thrown) ==
    LET text == toLowerCase(effectiveMessage(thrown.text))
    IN  CASE category = "CredentialResetSignal" ->
                 includes(text, "requested entity was not found")
          [] category = "InputError" ->
                 includes(text, "failed to read file") \/ includes(text, "could not read image file")
          [] category = "AuthError" -> includes(text, "api key not valid")
          [] category = "QuotaError" ->
                 \/ includes(text, "rate limit")
                 \/ includes(text, "resource_exhausted")
                 \/ includes(text, "quota")
          [] category = "TransientError" ->
                 includes(text, "deadline exceeded") \/ includes(text, "503 service unavailable")
          [] category = "DownloadError" -> startsWithDownloadFailed(thrown.text)
          [] category = "NoResultError" -> includes(text, "no download link was returned")

Hits(thrown) == {k \in 1..Len(TableOrder) : Matches(TableOrder[k], thrown)}

ReportedAll(run) == \E i \in 1..Len(run.log) : run.log[i] = Progressed(Pct(100))

\* C33: 100 is reported only by runs that end Succeeded: a run that ends
\* Failed, for a missing locator or a refused download as for any other
\* reason, has not reported 100.
Cex_C33 == \A r \in Failed : ~ReportedAll(runs[r])

(***************************************************************************)
(* Properties of the eviction                                              *)
(***************************************************************************)
\* The list is the first Len(list) entries of the other one, in its order.
IsPrefix(list, all) == Len(list) <= Len(all) /\ list = SubSeq(all, 1, Len(list))

\* C34: after insert(e) on a store with content L, whatever the storage
\* layer answered, the in-memory list is a prefix of [e] followed by L, and
\* so is the persisted list when a write of this insert succeeded: only the
\* oldest entries are dropped.
Thm_C34 ==
    InsertReturned =>
        /\ IsPrefix(history.v, <<last.item>> \o last.before.v)
        /\ last.final = "ok" =>
              (PersistedIsList /\ IsPrefix(Persisted, <<last.item>> \o last.before.v))

\* an insert into a full store of entries of different age was refused for
\* quota at least twice and then written: entries are left on both sides of e
Wit_C34 ==
    /\ InsertReturned /\ last.final = "ok"
    /\ Len(last.before.v) = HISTORY_LIMIT
    /\ last.quotaFailures >= 2
    /\ Len(history.v) > 1 /\ Len(history.v) < HISTORY_LIMIT - 1
    /\ PersistedIsList /\ Len(Persisted) = Len(history.v)
    /\ last.before.v[1].id # last.before.v[HISTORY_LIMIT].id
    /\ last.item.id # last.before.v[1].id

(***************************************************************************)
(* Properties of generations that overlap                                  *)
(***************************************************************************)
\* The calls of animateImage that have not settled.
InFlight == {r \in Slots : Pending(r)}

\* C32: with the app as caller at most one call of animateImage is in
\* flight: whatever the user does and whenever the remote answers, no call
\* starts before the one before it has settled.
Cex_C32 == Cardinality(InFlight) <= 1

\* The call of animateImage of run r settles in this step.
SettlesNow(r) == Pending(r) /\ runs'[r].pc \notin {"reading", "submitting", "waiting", "polling", "fetching"}

\* The app shows the loading view of run r: no handler has run since the
\* call of handleAnimate that started it.
Watching(r) == appState = "ANIMATING" /\ runs[r].no = started

\* C35: the settlement of a run changes what the app shows only while the
\* app is still in ANIMATING for that run: once the user has left its
\* loading view, its result or failure changes neither the app state nor
\* the displayed video, the error message or the progress value.
Cex_C35 ==
    [][\A r \in Slots :
          (SettlesNow(r) /\ ~Watching(r)) => UNCHANGED <<appState, videoUrl, error, progress>>]_vars

====
